---- MODULE Spec2Model ----
(***************************************************************************)
(* Model of the media rendering pipeline of kulturverein-lochmuehle/posting *)
(* (Root component, preview.utils.ts, render.utils.ts).                     *)
(*                                                                          *)
(* One operation ("op") is one call of previewFile, renderFile or           *)
(* renderVideo; op i owns the AbortController number i.  The browser runs   *)
(* one task at a time: every action below is one task (an event handler or  *)
(* the resumption of an awaited promise together with the microtasks that   *)
(* follow it).                                                              *)
(***************************************************************************)
EXTENDS Integers, Sequences, FiniteSets, TLC

VARIABLES
    file,             \* Root.file: the selected file, NoFile when undefined
    abortCtrl,        \* Root.#abortCtrl: id of the held controller, 0 when undefined
    selectedSize,     \* Root.selectedSize, <<height, width>>
    selectedFilters,  \* Root.selectedFilters
    saving,           \* Root.saving: a percentage, -1 when undefined
    timers,           \* pending setTimeout callbacks that reset Root.saving
    aborted,          \* aborted[i]: signal.aborted of controller i
    ops,              \* ops[i]: the state of operation i
    nops,             \* number of operations (and controllers) created so far
    canvas            \* the preview <canvas> of Root

vars == <<file, abortCtrl, selectedSize, selectedFilters, saving, timers,
          aborted, ops, nops, canvas>>

\* ---------------------------------------------------------------- bounds

MaxOps == 3
MaxFrames == 2
MaxSamples == 3
MaxDur == 2
MaxTail == 1
MaxFirst == 1
MaxFilters == 2
MaxCalls == 2
MaxDim == 8
MantBits == 8
MaxName == 4

OpIds == 1..MaxOps

\* ----------------------------------------------------------------- files

ImageTypes == {"image/png", "image/jpeg", "image/gif"}
VideoTypes == {"video/mp4", "video/webm", "video/quicktime"}

\* File.name is a sequence of characters
NoFile == [type |-> "", name |-> <<>>, first |-> 0, durs |-> <<>>, tail |-> 0]

\* A file: its declared type and, for a container, what the sample sink
\* will find in its video track (the timestamp of the first sample and the
\* duration of each sample) and by how much another track outlasts it.
\* Whether the container has a video track at all is the demuxer's answer
\* in RvTrack.
PngFile == [type |-> "image/png", name |-> <<"a", ".", "a">>,
            first |-> 0, durs |-> <<>>, tail |-> 0]
Mp4File == [type |-> "video/mp4", name |-> <<"a", ".", "a">>,
            first |-> 0, durs |-> <<1, 2>>, tail |-> 0]
TxtFile == [type |-> "text/plain", name |-> <<"a", ".", "a">>,
            first |-> 0, durs |-> <<>>, tail |-> 0]

SessionFiles == {PngFile, Mp4File, TxtFile}

RECURSIVE SumTo(_, _)
SumTo(s, k) == IF k = 0 THEN 0 ELSE s[k] + SumTo(s, k - 1)

NumSamples(f) == Len(f.durs)
\* VideoSample.timestamp and VideoSample.duration of the k-th sample
Timestamp(f, k) == f.first + SumTo(f.durs, k - 1)
SampleDuration(f, k) == f.durs[k]
\* Input.computeDuration(): the largest end timestamp among all tracks
ComputeDuration(f) == f.first + SumTo(f.durs, Len(f.durs)) + f.tail

\* the values the size-change and filters-change events of the session carry
Sizes == {<<1350, 1080>>}
FilterSets == {"none"}

\* ------------------------------------------------------------- operations

NoOp == [kind |-> "none", pc |-> "none", viaRenderFile |-> FALSE, src |-> NoFile,
         filters |-> "none", size |-> <<0, 0>>,
         urlLive |-> FALSE, revoked |-> 0, playing |-> FALSE,
         cb |-> 0, frames |-> 0, bitmaps |-> 0,
         duration |-> 0, hasTrack |-> FALSE, k |-> 0, pending |-> 0, drawn |-> 0,
         encoded |-> <<>>, progress |-> <<>>, closed |-> 0,
         outState |-> "none", srcOpen |-> FALSE, buffer |-> -1,
         result |-> "none", bytes |-> 0, saved |-> "", unhandled |-> FALSE,
         abortPc |-> "", abortK |-> 0,
         args |-> <<>>, ret |-> <<>>,
         surface |-> <<0, 0>>, filename |-> <<>>]

PreviewKinds == {"previewImage", "previewVideo", "previewNone"}
ExportKinds == {"exportImage", "exportVideo", "exportNone"}

\* AbortController.abort(): sets signal.aborted
AbortToken(ab, t) == IF t = 0 THEN ab ELSE [ab EXCEPT ![t] = TRUE]

\* The 'abort' listeners of previewImage and previewVideo: they run once,
\* when the controller goes from active to aborted, and revoke the object URL.
\* abortPc and abortK record where the preview stood and how many frames it
\* had rendered at that moment.
AbortListeners(os, ab, t) ==
    IF t # 0 /\ ~ab[t] /\ os[t].kind \in {"previewImage", "previewVideo"}
    THEN [os EXCEPT ![t].urlLive = FALSE, ![t].revoked = @ + 1,
                    ![t].abortPc = os[t].pc, ![t].abortK = os[t].frames]
    ELSE os

\* (mutant) the held controller is not aborted
AbortHeld_Skip(ab, held) == ab

\* this.#abortCtrl?.abort()
AbortHeld(ab, held) == AbortToken(ab, held)

\* ------------------------------------------------- surfaces and filenames

\* <<width, height>> of Root's canvas for the size <<height, width>>:
\* <canvas height="${selectedSize[0]}" width="${selectedSize[1]}">
PreviewSurface(size) == <<size[2], size[1]>>
\* renderFile: new OffscreenCanvas(size[0], size[1]), i.e. (width, height)
ExportSurface(size) == <<size[1], size[2]>>
\* renderVideo: new OffscreenCanvas(size[1], size[0])
VideoSurface(size) == <<size[2], size[1]>>

\* `-${size[1]}x${size[0]}`
Suffix(size) == "-" \o ToString(size[2]) \o "x" \o ToString(size[1])

\* name.replace(/\.[^/.]+$/, replacement): the match starts at a dot that
\* is followed, up to the end of the name, by one or more characters other
\* than a slash and a dot; a name without a match is returned as it is.
\* The replacement is one element of the result.
MatchStarts(name) ==
    { j \in 1..Len(name) :
        /\ name[j] = "."
        /\ j < Len(name)
        /\ \A k \in (j + 1)..Len(name) : name[k] \notin {"/", "."} }
ReplaceExt(name, replacement) ==
    IF MatchStarts(name) = {} THEN name
    ELSE LET j == CHOOSE m \in MatchStarts(name) :
                      \A n \in MatchStarts(name) : m <= n
         IN Append(SubSeq(name, 1, j - 1), replacement)

\* filename = file.name.replace(/\.[^/.]+$/, `${suffix}.png`) (or .mp4)
Filename(f, size, ext) == ReplaceExt(f.name, Suffix(size) \o ext)

\* ---------------------------------------------------------------- canvas

BlankCanvas == [filter |-> "none", content |-> "blank", by |-> 0, at |-> 0]

\* ctx.clearRect(0, 0, canvas.width, canvas.height) by operation i
ClearRect(cv, i, n) == [cv EXCEPT !.content = "cleared", !.by = i, !.at = n]

\* (mutant) renderImage without its abort check
RenderImage_NoCheck(cv, i, n, fl, isAborted) ==
    [filter |-> fl, content |-> "image", by |-> i, at |-> n]

\* renderImage on the preview canvas: nothing once aborted, else
\* applyFilters, clearRect and drawImage.
RenderImage(cv, i, n, fl, isAborted) ==
    IF isAborted THEN cv
    ELSE [filter |-> fl, content |-> "image", by |-> i, at |-> n]

\* ------------------------------------------------------------------ Init

Init ==
    /\ file = NoFile
    /\ abortCtrl = 0
    /\ selectedSize = <<1350, 1080>>
    /\ selectedFilters = "none"
    /\ saving = -1
    /\ timers = 0
    /\ aborted = [i \in OpIds |-> FALSE]
    /\ ops = [i \in OpIds |-> NoOp]
    /\ nops = 0
    /\ canvas = BlankCanvas

\* ------------------------------------------------------------ previewFile

\* previewImage: the synchronous part (the load of the image is pending)
PreviewImageOp(f, fl) ==
    [NoOp EXCEPT !.kind = "previewImage", !.pc = "loading", !.src = f,
                 !.filters = fl, !.urlLive = TRUE]

\* previewVideo: the synchronous part (the video element plays, muted and
\* in a loop; loadedmetadata is pending)
PreviewVideoOp(f, fl) ==
    [NoOp EXCEPT !.kind = "previewVideo", !.pc = "meta", !.src = f,
                 !.filters = fl, !.urlLive = TRUE, !.playing = TRUE]

\* previewFile's default branch
PreviewNoneOp(f, fl) ==
    [NoOp EXCEPT !.kind = "previewNone", !.pc = "done", !.src = f, !.filters = fl]

\* (mutant) the default branch previews the file as an image
PreviewFileOp_DefaultImage(f, fl) ==
    IF f.type \in VideoTypes THEN PreviewVideoOp(f, fl)
    ELSE PreviewImageOp(f, fl)

\* previewFile: the switch on file.type
PreviewFileOp(f, fl) ==
    IF f.type \in ImageTypes THEN PreviewImageOp(f, fl)
    ELSE IF f.type \in VideoTypes THEN PreviewVideoOp(f, fl)
    ELSE PreviewNoneOp(f, fl)

\* Root.#updateCanvas with this.file = f and this.selectedFilters = fl
UpdateCanvas(f, fl) ==
    IF f = NoFile
    THEN UNCHANGED <<abortCtrl, aborted, ops, nops, canvas>>
    ELSE LET n == nops + 1
             os == AbortListeners(ops, aborted, abortCtrl)
         IN /\ aborted' = AbortHeld(aborted, abortCtrl)
            /\ ops' = [os EXCEPT ![n] = PreviewFileOp(f, fl)]
            /\ nops' = n
            /\ abortCtrl' = n
            /\ canvas' = IF f.type \in VideoTypes THEN ClearRect(canvas, n, n)
                         ELSE canvas

\* The options component is disabled (no size, filter or save event) while
\* no file is selected or an export reports progress.
OptionsEnabled == file # NoFile /\ saving = -1

\* Root.handleDrop / Root.handleFileChange
HandleFileChange(f) ==
    /\ nops < MaxOps
    /\ file' = f
    /\ UpdateCanvas(f, selectedFilters)
    /\ UNCHANGED <<selectedSize, selectedFilters, saving, timers>>

\* Root.handleSizeChange
HandleSizeChange(s) ==
    /\ OptionsEnabled
    /\ nops < MaxOps
    /\ selectedSize' = s
    /\ UpdateCanvas(file, selectedFilters)
    /\ UNCHANGED <<file, selectedFilters, saving, timers>>

\* Root.handleFilterChange
HandleFilterChange(fl) ==
    /\ OptionsEnabled
    /\ nops < MaxOps
    /\ selectedFilters' = fl
    /\ UpdateCanvas(file, fl)
    /\ UNCHANGED <<file, selectedSize, saving, timers>>

\* ------------------------------------------------- previewImage callbacks

\* (mutant) the image is rendered again on a later event: the preview does
\* not halt after its first rendering
ImgOnload_Again(i) ==
    /\ ops[i].kind = "previewImage" /\ ops[i].pc = "loading"
    /\ ops[i].frames < MaxFrames
    /\ canvas' = RenderImage(ClearRect(canvas, i, nops), i, nops,
                             ops[i].filters, aborted[i])
    /\ ops' = [ops EXCEPT ![i].frames = IF aborted[i] THEN @ ELSE @ + 1]
    /\ UNCHANGED <<file, abortCtrl, selectedSize, selectedFilters, saving,
                   timers, aborted, nops>>

\* img.onload of previewImage: clearRect, then renderImage
ImgOnload(i) ==
    /\ ops[i].kind = "previewImage" /\ ops[i].pc = "loading"
    /\ canvas' = RenderImage(ClearRect(canvas, i, nops), i, nops,
                             ops[i].filters, aborted[i])
    /\ ops' = [ops EXCEPT ![i].pc = "done",
                          ![i].frames = IF aborted[i] THEN @ ELSE @ + 1]
    /\ UNCHANGED <<file, abortCtrl, selectedSize, selectedFilters, saving,
                   timers, aborted, nops>>

\* ------------------------------------------------- previewVideo callbacks

\* initCanvas, the loadedmetadata listener: requests the first frame callback
InitCanvas(i) ==
    /\ ops[i].kind = "previewVideo" /\ ops[i].pc = "meta"
    /\ ops' = [ops EXCEPT ![i].pc = "waiting", ![i].cb = @ + 1]
    /\ UNCHANGED <<file, abortCtrl, selectedSize, selectedFilters, saving,
                   timers, aborted, nops, canvas>>

\* (mutant) updateCanvas without its abort check
FrameCallback_NoCheck(i) ==
    /\ ops[i].kind = "previewVideo" /\ ops[i].pc = "waiting" /\ ops[i].cb > 0
    /\ ops[i].bitmaps < MaxFrames
    /\ ops' = [ops EXCEPT ![i].pc = "bitmap", ![i].cb = @ - 1]
    /\ UNCHANGED <<file, abortCtrl, selectedSize, selectedFilters, saving,
                   timers, aborted, nops, canvas>>

\* updateCanvas, the frame callback, up to its await of createImageBitmap
\* (the model stops a loop that is not aborted after MaxFrames frames)
FrameCallback(i) ==
    /\ ops[i].kind = "previewVideo" /\ ops[i].pc = "waiting" /\ ops[i].cb > 0
    /\ (aborted[i] \/ ops[i].frames < MaxFrames)
    /\ ops' = IF aborted[i]
              THEN [ops EXCEPT ![i].pc = "stopped", ![i].cb = @ - 1]
              ELSE [ops EXCEPT ![i].pc = "bitmap", ![i].cb = @ - 1]
    /\ UNCHANGED <<file, abortCtrl, selectedSize, selectedFilters, saving,
                   timers, aborted, nops, canvas>>

\* updateCanvas after createImageBitmap resolved: renderImage, then the
\* request of the next frame callback
BitmapReady(i) ==
    /\ ops[i].kind = "previewVideo" /\ ops[i].pc = "bitmap"
    /\ canvas' = RenderImage(canvas, i, nops, ops[i].filters, aborted[i])
    /\ ops' = [ops EXCEPT ![i].pc = "waiting", ![i].cb = @ + 1,
                          ![i].bitmaps = @ + 1,
                          ![i].frames = IF aborted[i] THEN @ ELSE @ + 1]
    /\ UNCHANGED <<file, abortCtrl, selectedSize, selectedFilters, saving,
                   timers, aborted, nops>>

\* ------------------------------------------------------------- renderFile

\* Root's progress callback: this.saving = Math.floor(progress * 100), and
\* a timeout that resets it once progress >= 1.  p = <<num, den>>.
SavingAfter(o, p) == IF o.viaRenderFile THEN (100 * p[1]) \div p[2] ELSE saving
TimersAfter(o, p) == IF o.viaRenderFile /\ p[1] >= p[2] THEN timers + 1 ELSE timers

\* renderFile after renderVideo settled: a rejection propagates through
\* renderFile and #renderCanvas (handleSave does not await it); otherwise
\* Blob([buffer ?? '']), the filename and saveFileContents.
AfterRenderVideo(o) ==
    IF ~o.viaRenderFile THEN o
    ELSE IF o.result = "rejected" THEN [o EXCEPT !.unhandled = TRUE]
    ELSE [o EXCEPT !.saved = "mp4",
                   !.bytes = IF o.buffer = -1 THEN 0 ELSE o.buffer,
                   !.filename = Filename(o.src, o.size, ".mp4")]

\* renderFile returned its controller: #renderCanvas stores it
ReturnsToken(o) == o.viaRenderFile /\ o.pc = "done" /\ ~o.unhandled

HeldAfter(i, o) == IF ReturnsToken(o) THEN i ELSE abortCtrl

\* renderVideo up to its first await (input.computeDuration())
RenderVideoOp(f, s, fl, via) ==
    [NoOp EXCEPT !.kind = "exportVideo", !.pc = "rv_duration", !.src = f,
                 !.size = s, !.filters = fl, !.viaRenderFile = via,
                 !.outState = "new"]

\* renderFile up to its first await
RenderFileOp(f, s, fl) ==
    IF f.type \in ImageTypes
    THEN [NoOp EXCEPT !.kind = "exportImage", !.pc = "e_bitmap", !.src = f,
                      !.size = s, !.filters = fl, !.viaRenderFile = TRUE]
    ELSE IF f.type \in VideoTypes THEN RenderVideoOp(f, s, fl, TRUE)
    ELSE [NoOp EXCEPT !.kind = "exportNone", !.pc = "done", !.src = f,
                      !.size = s, !.filters = fl, !.viaRenderFile = TRUE]

\* Root.handleSave -> Root.#renderCanvas
HandleSave ==
    /\ OptionsEnabled
    /\ nops < MaxOps
    /\ LET n == nops + 1
           os == AbortListeners(ops, aborted, abortCtrl)
           o == RenderFileOp(file, selectedSize, selectedFilters)
       IN /\ aborted' = AbortHeld(aborted, abortCtrl)
          /\ ops' = [os EXCEPT ![n] = o]
          /\ nops' = n
          /\ abortCtrl' = HeldAfter(n, o)
    /\ UNCHANGED <<file, selectedSize, selectedFilters, saving, timers, canvas>>

\* renderFile, image branch, after createImageBitmap: renderImage on a new
\* OffscreenCanvas, up to its await of convertToBlob; when renderImage
\* returns at once, the filename is computed and nothing is saved
ExportBitmapReady(i) ==
    /\ ops[i].kind = "exportImage" /\ ops[i].pc = "e_bitmap"
    /\ LET c == [ops[i] EXCEPT !.surface = ExportSurface(ops[i].size)]
           o == IF aborted[i]
                THEN [c EXCEPT !.pc = "done", !.result = "nothing",
                               !.filename = Filename(c.src, c.size, ".png")]
                ELSE [c EXCEPT !.pc = "e_blob", !.drawn = 1]
       IN /\ ops' = [ops EXCEPT ![i] = o]
          /\ abortCtrl' = HeldAfter(i, o)
    /\ UNCHANGED <<file, selectedSize, selectedFilters, saving, timers,
                   aborted, nops, canvas>>

\* renderFile, image branch, after convertToBlob: saveFileContents
ExportBlobReady(i) ==
    /\ ops[i].kind = "exportImage" /\ ops[i].pc = "e_blob"
    /\ LET o == [ops[i] EXCEPT !.pc = "done", !.result = "buffer",
                               !.saved = "png", !.bytes = 1,
                               !.filename = Filename(ops[i].src, ops[i].size,
                                                     ".png")]
       IN /\ ops' = [ops EXCEPT ![i] = o]
          /\ abortCtrl' = HeldAfter(i, o)
    /\ UNCHANGED <<file, selectedSize, selectedFilters, saving, timers,
                   aborted, nops, canvas>>

\* the timeout of Root's progress callback
SavingTimeout ==
    /\ timers > 0
    /\ timers' = timers - 1
    /\ saving' = -1
    /\ UNCHANGED <<file, abortCtrl, selectedSize, selectedFilters, aborted,
                   ops, nops, canvas>>

\* ------------------------------------------------------------ renderVideo

\* after input.computeDuration()
RvDuration(i) ==
    /\ ops[i].kind = "exportVideo" /\ ops[i].pc = "rv_duration"
    /\ ops' = [ops EXCEPT ![i].pc = "rv_track",
                          ![i].duration = ComputeDuration(ops[i].src)]
    /\ UNCHANGED <<file, abortCtrl, selectedSize, selectedFilters, saving,
                   timers, aborted, nops, canvas>>

\* (mutant) a container without a video track rejects
ReturnNoTrack_Reject(o) ==
    AfterRenderVideo([o EXCEPT !.pc = "done", !.result = "rejected"])

\* if (videoTrack === null) return;
ReturnNoTrack(o) ==
    AfterRenderVideo([o EXCEPT !.pc = "done", !.result = "nothing"])

\* after input.getPrimaryVideoTrack(): return when there is none, else the
\* render canvas, the CanvasSource, the filters, the dimensions,
\* output.addVideoTrack and output.start().  (A new OffscreenCanvas always
\* has a 2d context: the renderCtx === null return is not taken.)
RvTrack(i) ==
    /\ ops[i].kind = "exportVideo" /\ ops[i].pc = "rv_track"
    /\ \E videoTrack \in BOOLEAN :
         LET o == IF ~videoTrack
                  THEN ReturnNoTrack(ops[i])
                  ELSE [ops[i] EXCEPT !.pc = "rv_start", !.hasTrack = TRUE,
                                      !.srcOpen = TRUE, !.outState = "started",
                                      !.surface = VideoSurface(ops[i].size)]
         IN /\ ops' = [ops EXCEPT ![i] = o]
            /\ abortCtrl' = HeldAfter(i, o)
    /\ UNCHANGED <<file, selectedSize, selectedFilters, saving, timers,
                   aborted, nops, canvas>>

\* after output.start(): the sample sink, and the loop asks for a sample
RvStart(i) ==
    /\ ops[i].kind = "exportVideo" /\ ops[i].pc = "rv_start"
    /\ ops' = [ops EXCEPT ![i].pc = "rv_next"]
    /\ UNCHANGED <<file, abortCtrl, selectedSize, selectedFilters, saving,
                   timers, aborted, nops, canvas>>

\* the sample's progress value, timestamp / duration, as <<num, den>>
SampleProgress(o) == <<Timestamp(o.src, o.k), o.duration>>

\* (mutant) the loop is not resumed when the awaited promise resolves
AfterAdd_NoResume(o) == o

\* (mutant) the loop body without its progress callback
AfterAdd_NoUpdate(o) == [o EXCEPT !.pc = "rv_next", !.closed = @ + 1]

\* the loop body after the awaited canvasSource.add: onUpdate, sample.close
AfterAdd(o) ==
    [o EXCEPT !.pc = "rv_next", !.progress = Append(@, SampleProgress(o)),
              !.closed = @ + 1]

\* (mutant) canvasSource.add is not awaited: the loop body goes on at once
AwaitAdd_NoAwait(o) == AfterAdd(o)

\* await canvasSource.add(...): the loop is suspended until the encoder
\* has accepted the frame
AwaitAdd(o) == [o EXCEPT !.pc = "rv_add"]

\* (mutant) canvasSource.add(sample.duration, sample.timestamp)
AddFrame_Swapped(o) ==
    [o EXCEPT !.encoded = Append(@, <<SampleDuration(o.src, o.k),
                                      Timestamp(o.src, o.k)>>),
              !.pending = @ + 1]

\* canvasSource.add(sample.timestamp, sample.duration)
AddFrame(o) ==
    [o EXCEPT !.encoded = Append(@, <<Timestamp(o.src, o.k),
                                      SampleDuration(o.src, o.k)>>),
              !.pending = @ + 1]

\* (mutant) the loop body without its abort check
LoopBody_NoCheck(o, isAborted) == AwaitAdd(AddFrame([o EXCEPT !.drawn = @ + 1]))

\* (mutant) the abort check returns instead of rejecting
LoopBody_Resolve(o, isAborted) ==
    IF isAborted
    THEN AfterRenderVideo([o EXCEPT !.pc = "done", !.result = "nothing"])
    ELSE AwaitAdd(AddFrame([o EXCEPT !.drawn = @ + 1]))

\* the body of the loop for the sample just received, up to the await
LoopBody(o, isAborted) ==
    IF isAborted
    THEN AfterRenderVideo([o EXCEPT !.pc = "done", !.result = "rejected"])
    ELSE AwaitAdd(AddFrame([o EXCEPT !.drawn = @ + 1]))

\* sink.samples() yields the next sample (without the await of
\* canvasSource.add the body would run on to the progress callback here)
RvSample(i) ==
    /\ ops[i].kind = "exportVideo" /\ ops[i].pc = "rv_next"
    /\ ops[i].k < NumSamples(ops[i].src)
    /\ LET o == LoopBody([ops[i] EXCEPT !.k = @ + 1], aborted[i])
       IN /\ ops' = [ops EXCEPT ![i] = o]
          /\ abortCtrl' = HeldAfter(i, o)
          /\ saving' = IF o.pc = "rv_next" THEN SavingAfter(o, SampleProgress(o))
                       ELSE saving
          /\ timers' = IF o.pc = "rv_next" THEN TimersAfter(o, SampleProgress(o))
                       ELSE timers
    /\ UNCHANGED <<file, selectedSize, selectedFilters, aborted, nops, canvas>>

\* (mutant) output.finalize() without canvasSource.close() before it
EndOfStream_NoClose(o) == [o EXCEPT !.pc = "rv_finalize"]

\* canvasSource.close(), then output.finalize() up to its await
EndOfStream(o) == [o EXCEPT !.pc = "rv_finalize", !.srcOpen = FALSE]

\* sink.samples() is exhausted: canvasSource.close(), output.finalize()
RvEnd(i) ==
    /\ ops[i].kind = "exportVideo" /\ ops[i].pc = "rv_next"
    /\ ops[i].k = NumSamples(ops[i].src)
    /\ ops' = [ops EXCEPT ![i] = EndOfStream(ops[i])]
    /\ UNCHANGED <<file, abortCtrl, selectedSize, selectedFilters, saving,
                   timers, aborted, nops, canvas>>

\* the encoder accepts a frame: the promise of canvasSource.add resolves
\* and, when the loop awaits it, the loop body goes on
RvAccept(i) ==
    /\ ops[i].kind = "exportVideo" /\ ops[i].pending > 0
    /\ LET a == [ops[i] EXCEPT !.pending = @ - 1]
           o == IF a.pc = "rv_add" THEN AfterAdd(a) ELSE a
       IN /\ ops' = [ops EXCEPT ![i] = o]
          /\ saving' = IF ops[i].pc = "rv_add"
                       THEN SavingAfter(o, SampleProgress(o)) ELSE saving
          /\ timers' = IF ops[i].pc = "rv_add"
                       THEN TimersAfter(o, SampleProgress(o)) ELSE timers
    /\ UNCHANGED <<file, abortCtrl, selectedSize, selectedFilters, aborted,
                   nops, canvas>>

\* BufferTarget.buffer after output.finalize(): the container's bytes
FinalizedBuffer(o) == 1 + Len(o.encoded)

\* after output.finalize(): onUpdate(1) and the buffer, if there is one
RvFinalize(i) ==
    /\ ops[i].kind = "exportVideo" /\ ops[i].pc = "rv_finalize"
    /\ LET b == FinalizedBuffer(ops[i])
           o == AfterRenderVideo(
                  [ops[i] EXCEPT !.pc = "done", !.outState = "finalized",
                                 !.buffer = b,
                                 !.progress = Append(@, <<1, 1>>),
                                 !.result = IF b = -1 THEN "nothing" ELSE "buffer"])
       IN /\ ops' = [ops EXCEPT ![i] = o]
          /\ abortCtrl' = HeldAfter(i, o)
          /\ saving' = SavingAfter(o, <<1, 1>>)
          /\ timers' = TimersAfter(o, <<1, 1>>)
    /\ UNCHANGED <<file, selectedSize, selectedFilters, aborted, nops, canvas>>

RenderVideoStep(i) ==
    \/ RvDuration(i)
    \/ RvTrack(i)
    \/ RvStart(i)
    \/ RvSample(i)
    \/ RvEnd(i)
    \/ RvAccept(i)
    \/ RvFinalize(i)

Next ==
    \/ \E f \in SessionFiles \cup {NoFile} : HandleFileChange(f)
    \/ \E s \in Sizes : HandleSizeChange(s)
    \/ \E fl \in FilterSets : HandleFilterChange(fl)
    \/ \E i \in OpIds : ImgOnload(i)
    \/ \E i \in OpIds : InitCanvas(i)
    \/ \E i \in OpIds : FrameCallback(i)
    \/ \E i \in OpIds : BitmapReady(i)
    \/ HandleSave
    \/ \E i \in OpIds : ExportBitmapReady(i)
    \/ \E i \in OpIds : ExportBlobReady(i)
    \/ SavingTimeout
    \/ \E i \in OpIds : RenderVideoStep(i)

Spec == Init /\ [][Next]_vars

\* ------------------------------------------- renderVideo called directly

\* The video files of the direct calls: every list of at most MaxSamples
\* sample durations
VideoInputs ==
    { [type |-> "video/mp4", name |-> <<"a", ".", "a">>,
       first |-> t, durs |-> d, tail |-> x] :
        t \in 0..MaxFirst, x \in 0..MaxTail,
        d \in UNION { [1..n -> 1..MaxDur] : n \in 0..MaxSamples } }

\* renderVideo(file, size, filters, abortCtrl, onUpdate) called by a caller
\* that keeps abortCtrl: operation 1, at its first await
TranscodeInit ==
    /\ file = NoFile
    /\ abortCtrl = 0
    /\ selectedSize = <<1350, 1080>>
    /\ selectedFilters = "none"
    /\ saving = -1
    /\ timers = 0
    /\ aborted = [i \in OpIds |-> FALSE]
    /\ \E f \in VideoInputs :
         ops = [i \in OpIds |-> IF i = 1
                                THEN RenderVideoOp(f, <<1350, 1080>>, "none", FALSE)
                                ELSE NoOp]
    /\ nops = 1
    /\ canvas = BlankCanvas

\* the caller aborts the controller it passed to renderVideo; abortPc and
\* abortK record where the operation stood at that moment
CallerAbort(i) ==
    /\ ops[i].kind = "exportVideo" /\ ~ops[i].viaRenderFile /\ ~aborted[i]
    /\ aborted' = AbortToken(aborted, i)
    /\ ops' = [ops EXCEPT ![i].abortPc = ops[i].pc, ![i].abortK = ops[i].k]
    /\ UNCHANGED <<file, abortCtrl, selectedSize, selectedFilters, saving,
                   timers, nops, canvas>>

TranscodeNext ==
    \/ \E i \in OpIds : CallerAbort(i)
    \/ \E i \in OpIds : RenderVideoStep(i)

TranscodeSpec == TranscodeInit /\ [][TranscodeNext]_vars

\* ------------------------- renderVideo called directly and never aborted

\* The caller never aborts the controller.  Every awaited promise of
\* renderVideo eventually settles and every continuation that is ready
\* eventually runs: the demuxer answers computeDuration, getPrimaryVideoTrack
\* and each request of the sample sink, the output starts and finalizes,
\* and the encoder accepts each frame.
TerminationNext == \E i \in OpIds : RenderVideoStep(i)

TerminationSpec ==
    /\ TranscodeInit
    /\ [][TerminationNext]_vars
    /\ \A i \in OpIds : WF_vars(RenderVideoStep(i))

\* ------------------------------------------- the session with a failing encoder

\* The encoder fails on the frame it was handed: the promise of
\* canvasSource.add rejects, the error leaves the loop at the await (the
\* rest of the body, sample.close() included, is skipped) and the promise
\* of renderVideo rejects.
RvAddFails(i) ==
    /\ ops[i].kind = "exportVideo" /\ ops[i].pc = "rv_add" /\ ops[i].pending > 0
    /\ LET o == AfterRenderVideo([ops[i] EXCEPT !.pending = @ - 1, !.pc = "done",
                                                !.result = "rejected"])
       IN /\ ops' = [ops EXCEPT ![i] = o]
          /\ abortCtrl' = HeldAfter(i, o)
    /\ UNCHANGED <<file, selectedSize, selectedFilters, saving, timers,
                   aborted, nops, canvas>>

FaultNext ==
    \/ Next
    \/ \E i \in OpIds : RvAddFails(i)

FaultSpec == Init /\ [][FaultNext]_vars

\* ------------------------------------------- renderImage called directly

\* the filter sets and the states of the target surface of the direct calls
CallFilters == {"none", "f1", "f2"}
PriorCanvases ==
    { BlankCanvas,
      [filter |-> "none", content |-> "cleared", by |-> 0, at |-> 0],
      [filter |-> "f1", content |-> "cleared", by |-> 0, at |-> 0],
      [filter |-> "f1", content |-> "image", by |-> 0, at |-> 0],
      [filter |-> "f2", content |-> "image", by |-> 0, at |-> 0] }

\* renderImage(image, canvas, filters, abortCtrl) is about to be called as
\* operation 1, on an OffscreenCanvas (args = <<TRUE>>, the export) or on
\* an HTMLCanvasElement (args = <<FALSE>>, the preview); the caller keeps
\* the controller.
RenderImageInit ==
    /\ file = NoFile
    /\ abortCtrl = 0
    /\ selectedSize = <<1350, 1080>>
    /\ selectedFilters = "none"
    /\ saving = -1
    /\ timers = 0
    /\ aborted = [i \in OpIds |-> FALSE]
    /\ \E fl \in CallFilters, offscreen \in BOOLEAN :
         ops = [i \in OpIds |->
                  IF i = 1
                  THEN [NoOp EXCEPT !.kind = "renderImage", !.pc = "ri_call",
                                    !.filters = fl, !.args = <<offscreen>>]
                  ELSE NoOp]
    /\ nops = 1
    /\ canvas \in PriorCanvases

\* what renderImage's promise resolves with: nothing when aborted, else
\* URL.createObjectURL(blob) of an OffscreenCanvas and
\* canvas.toDataURL('image/png') of an HTMLCanvasElement
RenderImageReturn(isAborted, offscreen) ==
    IF isAborted THEN <<>>
    ELSE IF offscreen THEN <<"objectURL", "png">>
    ELSE <<"dataURL", "png">>

\* renderImage from its call to its return or, for an OffscreenCanvas, to
\* its await of convertToBlob
RiCall(i) ==
    /\ ops[i].kind = "renderImage" /\ ops[i].pc = "ri_call"
    /\ canvas' = RenderImage(canvas, i, nops, ops[i].filters, aborted[i])
    /\ ops' = IF ~aborted[i] /\ ops[i].args[1]
              THEN [ops EXCEPT ![i].pc = "ri_blob", ![i].drawn = 1]
              ELSE [ops EXCEPT ![i].pc = "done",
                               ![i].drawn = IF aborted[i] THEN 0 ELSE 1,
                               ![i].ret = RenderImageReturn(aborted[i], FALSE)]
    /\ UNCHANGED <<file, abortCtrl, selectedSize, selectedFilters, saving,
                   timers, aborted, nops>>

\* convertToBlob resolved: the object URL is returned (the signal is not
\* looked at again)
RiBlob(i) ==
    /\ ops[i].kind = "renderImage" /\ ops[i].pc = "ri_blob"
    /\ ops' = [ops EXCEPT ![i].pc = "done",
                          ![i].ret = RenderImageReturn(FALSE, TRUE)]
    /\ UNCHANGED <<file, abortCtrl, selectedSize, selectedFilters, saving,
                   timers, aborted, nops, canvas>>

\* the caller aborts the controller it passed to renderImage; abortPc
\* records where the call stood
RiAbort(i) ==
    /\ ops[i].kind = "renderImage" /\ ~aborted[i]
    /\ aborted' = AbortToken(aborted, i)
    /\ ops' = [ops EXCEPT ![i].abortPc = ops[i].pc]
    /\ UNCHANGED <<file, abortCtrl, selectedSize, selectedFilters, saving,
                   timers, nops, canvas>>

RenderImageNext ==
    \/ \E i \in OpIds : RiCall(i)
    \/ \E i \in OpIds : RiBlob(i)
    \/ \E i \in OpIds : RiAbort(i)

RenderImageSpec == RenderImageInit /\ [][RenderImageNext]_vars

\* ------------------------------------------ applyFilters called directly

\* FILTERS: the names of the catalog in the order of their declaration,
\* and the unit of each
FilterNames ==
    <<"blur", "brightness", "contrast", "grayscale", "hue-rotate", "invert",
      "opacity", "saturate", "sepia">>
FILTERS ==
    [n \in {FilterNames[j] : j \in 1..Len(FilterNames)} |->
        [unit |-> CASE n = "blur" -> "px"
                    [] n = "hue-rotate" -> "deg"
                    [] OTHER -> "%"]]

\* FILTERS is an object literal: for the names it inherits from
\* Object.prototype FILTERS[name] is a value too, one without a unit
PrototypeNames == {"constructor", "toString", "valueOf", "hasOwnProperty"}

\* FILTERS[name].unit throws a TypeError when FILTERS[name] is undefined
ParseFilterThrows(name) == name \notin (DOMAIN FILTERS \cup PrototypeNames)

\* (mutant) parseFilter without the unit
ParseFilter_NoUnit(name, value) == name \o "(" \o ToString(value) \o ")"

\* parseFilter: `${name}(${value}${FILTERS[name].unit})`
ParseFilter(name, value) ==
    name \o "(" \o ToString(value)
         \o (IF name \in DOMAIN FILTERS THEN FILTERS[name].unit ELSE "undefined")
         \o ")"

\* Object.entries(filters).map(...): a FilterSet is the sequence of its
\* <<name, value>> entries in the order of their insertion
Parsed(filters) ==
    [j \in 1..Len(filters) |-> ParseFilter(filters[j][1], filters[j][2])]

\* parsed.join(' ')
RECURSIVE Join(_)
Join(parsed) ==
    IF Len(parsed) = 1 THEN parsed[1]
    ELSE parsed[1] \o " " \o Join(Tail(parsed))

ApplyFiltersThrows(filters) ==
    \E j \in 1..Len(filters) : ParseFilterThrows(filters[j][1])

\* applyFilters: nothing is assigned when parseFilter throws; the setter of
\* ctx.filter ignores a value that is not a list of filter functions
ApplyFilters(cv, filters) ==
    IF ApplyFiltersThrows(filters) THEN cv
    ELSE IF \E j \in 1..Len(filters) : filters[j][1] \notin DOMAIN FILTERS THEN cv
    ELSE [cv EXCEPT !.filter = IF Len(filters) > 0 THEN Join(Parsed(filters))
                               ELSE "none"]

\* the names and values of the FilterSets of the direct calls
CallNames == {"blur", "grayscale", "hue-rotate", "sepia", "glow", "constructor"}
CallValues == {20, 60}
CallFilterSets ==
    { f \in UNION { [1..n -> CallNames \X CallValues] : n \in 0..MaxFilters } :
        \A j, l \in 1..Len(f) : j # l => f[j][1] # f[l][1] }

\* applyFilters(canvas, filters) is about to be called as operation 1;
\* args = <<filters, ctx.filter before the call>>
ApplyFiltersInit ==
    /\ file = NoFile
    /\ abortCtrl = 0
    /\ selectedSize = <<1350, 1080>>
    /\ selectedFilters = "none"
    /\ saving = -1
    /\ timers = 0
    /\ aborted = [i \in OpIds |-> FALSE]
    /\ nops = 1
    /\ \E prior \in {"none", "invert(75%)"} :
         /\ canvas = [BlankCanvas EXCEPT !.filter = prior]
         /\ \E f \in CallFilterSets :
              ops = [i \in OpIds |->
                       IF i = 1
                       THEN [NoOp EXCEPT !.kind = "applyFilters", !.pc = "af_call",
                                         !.args = <<f, prior>>]
                       ELSE NoOp]

\* one call of applyFilters with the FilterSet of the operation (k counts
\* the calls)
AfCall(i) ==
    /\ ops[i].kind = "applyFilters" /\ ops[i].pc = "af_call"
    /\ canvas' = ApplyFilters(canvas, ops[i].args[1])
    /\ ops' = [ops EXCEPT ![i].k = @ + 1,
                          ![i].pc = IF ops[i].k + 1 >= MaxCalls THEN "done"
                                    ELSE "af_call",
                          ![i].result = IF ApplyFiltersThrows(ops[i].args[1])
                                        THEN "TypeError" ELSE "returned"]
    /\ UNCHANGED <<file, abortCtrl, selectedSize, selectedFilters, saving,
                   timers, aborted, nops>>

ApplyFiltersNext == \E i \in OpIds : AfCall(i)

ApplyFiltersSpec == ApplyFiltersInit /\ [][ApplyFiltersNext]_vars

\* ---------------------------------------- calcDimensions called directly

\* A JS number is a fraction <<n, d>> in lowest terms with d > 0, or
\* Infinity, -Infinity or NaN.  The arithmetic is IEEE-754's, round to
\* nearest with ties to even, with a significand of MantBits bits (53 in
\* JS); the range of the exponent is not limited.
Infinity == <<1, 0>>
NegInfinity == <<-1, 0>>
NaN == <<0, 0>>
IsFinite(x) == x[2] > 0

RECURSIVE Gcd(_, _)
Gcd(a, b) == IF b = 0 THEN a ELSE Gcd(b, a % b)
Frac(n, d) ==
    LET g == Gcd(IF n < 0 THEN -n ELSE n, d)
    IN IF n < 0 THEN <<-((-n) \div g), d \div g>> ELSE <<n \div g, d \div g>>
Num(a) == <<a, 1>>

\* the float nearest to n/d, for n > 0 and d > 0
RECURSIVE RoundPos(_, _)
RoundPos(n, d) ==
    IF n >= d * 2^MantBits
    THEN LET r == RoundPos(n, 2 * d) IN Frac(2 * r[1], r[2])
    ELSE IF n < d * 2^(MantBits - 1)
    THEN LET r == RoundPos(2 * n, d) IN Frac(r[1], 2 * r[2])
    ELSE LET q == n \div d
             rem == n % d
         IN IF 2 * rem > d \/ (2 * rem = d /\ q % 2 = 1)
            THEN <<q + 1, 1>> ELSE <<q, 1>>

Round(x) ==
    IF ~IsFinite(x) \/ x[1] = 0 THEN x
    ELSE IF x[1] > 0 THEN RoundPos(x[1], x[2])
    ELSE LET r == RoundPos(-x[1], x[2]) IN <<-r[1], r[2]>>

\* a / b for integers a, b >= 0
Div(a, b) ==
    IF b = 0 THEN (IF a = 0 THEN NaN ELSE Infinity)
    ELSE Round(Frac(a, b))

\* (mutant) Math.min in the place of Math.max
MathMax_Min(x, y) ==
    IF x = NaN \/ y = NaN THEN NaN
    ELSE IF x = Infinity THEN y
    ELSE IF y = Infinity THEN x
    ELSE IF x[1] * y[2] <= y[1] * x[2] THEN x ELSE y

\* Math.max(x, y) for x, y >= 0 or NaN
MathMax(x, y) ==
    IF x = NaN \/ y = NaN THEN NaN
    ELSE IF x = Infinity \/ y = Infinity THEN Infinity
    ELSE IF x[1] * y[2] >= y[1] * x[2] THEN x ELSE y

\* a * x for an integer a >= 0
Mul(a, x) ==
    IF x = NaN THEN NaN
    ELSE IF x = Infinity THEN (IF a = 0 THEN NaN ELSE Infinity)
    ELSE Round(Frac(a * x[1], x[2]))

\* a - x for an integer a >= 0 and x >= 0 or NaN
Sub(a, x) ==
    IF x = NaN THEN NaN
    ELSE IF x = Infinity THEN NegInfinity
    ELSE Round(Frac(a * x[2] - x[1], x[2]))

\* (mutant) the shift is not halved
Half_Whole(x) == x

\* x / 2 (exact)
Half(x) == IF ~IsFinite(x) THEN x ELSE Frac(x[1], 2 * x[2])

\* calcDimensions(frameWidth, frameHeight, canvas):
\* <<sx, sy, sWidth, sHeight, dx, dy, dWidth, dHeight>>
CalcDimensions(frameWidth, frameHeight, width, height) ==
    LET hRatio == Div(width, frameWidth)
        vRatio == Div(height, frameHeight)
        ratio == MathMax(hRatio, vRatio)
        centerShiftX == Half(Sub(width, Mul(frameWidth, ratio)))
        centerShiftY == Half(Sub(height, Mul(frameHeight, ratio)))
    IN <<Num(0), Num(0), Num(frameWidth), Num(frameHeight),
         centerShiftX, centerShiftY,
         Mul(frameWidth, ratio), Mul(frameHeight, ratio)>>

\* the arguments of the direct calls, <<frameWidth, frameHeight,
\* canvas.width, canvas.height>>: all small ones, a 1920x1080 frame on the
\* canvas of the size <<1080, 1080>>, and a frame of width 7 on a canvas of
\* width 61 (61 / 7 * 7 < 61 in doubles)
CallDims ==
    ((0..MaxDim) \X (0..MaxDim) \X (0..MaxDim) \X (0..MaxDim))
        \cup {<<1920, 1080, 1080, 1080>>, <<7, 1, 61, 1>>}

\* calcDimensions is about to be called as operation 1
CalcDimensionsInit ==
    /\ file = NoFile
    /\ abortCtrl = 0
    /\ selectedSize = <<1350, 1080>>
    /\ selectedFilters = "none"
    /\ saving = -1
    /\ timers = 0
    /\ aborted = [i \in OpIds |-> FALSE]
    /\ nops = 1
    /\ canvas = BlankCanvas
    /\ \E a \in CallDims :
         ops = [i \in OpIds |->
                  IF i = 1
                  THEN [NoOp EXCEPT !.kind = "calcDimensions", !.pc = "cd_call",
                                    !.args = a]
                  ELSE NoOp]

\* the call of calcDimensions: it has no throw statement and always returns
CdCall(i) ==
    /\ ops[i].kind = "calcDimensions" /\ ops[i].pc = "cd_call"
    /\ ops' = [ops EXCEPT ![i].pc = "done", ![i].result = "returned",
                          ![i].ret = CalcDimensions(ops[i].args[1], ops[i].args[2],
                                                    ops[i].args[3], ops[i].args[4])]
    /\ UNCHANGED <<file, abortCtrl, selectedSize, selectedFilters, saving,
                   timers, aborted, nops, canvas>>

CalcDimensionsNext == \E i \in OpIds : CdCall(i)

CalcDimensionsSpec == CalcDimensionsInit /\ [][CalcDimensionsNext]_vars

\* ------------------------------------------- renderFile called directly

\* the files of the direct calls: every name of 1 to MaxName characters
NameChars == {"a", "."}
FileNames == UNION { [1..n -> NameChars] : n \in 1..MaxName }
NamedFiles == { [f EXCEPT !.name = nm] : f \in SessionFiles, nm \in FileNames }
CallSizes == {<<1350, 1080>>, <<1080, 1080>>}

\* renderFile(file, size, filters, onUpdate) called with Root's progress
\* callback, as operation 1, up to its first await; the caller stores the
\* controller it returns
RenderFileInit ==
    /\ file = NoFile
    /\ selectedSize = <<1350, 1080>>
    /\ selectedFilters = "none"
    /\ saving = -1
    /\ timers = 0
    /\ aborted = [i \in OpIds |-> FALSE]
    /\ nops = 1
    /\ canvas = BlankCanvas
    /\ \E f \in NamedFiles, s \in CallSizes :
         LET o == RenderFileOp(f, s, "none")
         IN /\ ops = [i \in OpIds |-> IF i = 1 THEN o ELSE NoOp]
            /\ abortCtrl = IF ReturnsToken(o) THEN 1 ELSE 0

RenderFileNext ==
    \/ \E i \in OpIds : ExportBitmapReady(i)
    \/ \E i \in OpIds : ExportBlobReady(i)
    \/ \E i \in OpIds : RenderVideoStep(i)
    \/ SavingTimeout

RenderFileSpec == RenderFileInit /\ [][RenderFileNext]_vars

\* --------------------------- Options.handleSizeChange called directly

\* the catalog of presets, by name
MEDIA_SIZES == [n \in {"Instagram Feed"} |-> [height |-> 1350, width |-> 1080]]

\* valueAsNumber of the width and height inputs: NaN for an empty input
InputValues == {NaN, Num(640), Num(720), Num(1280)}
\* the target of the change event: <<target.name, target.value>> (the
\* value of an input is in InputValues and not repeated here)
SizeTargets ==
    {<<"size", "custom">>, <<"width", "">>, <<"height", "">>}
        \cup { <<"size", n>> : n \in DOMAIN MEDIA_SIZES }

\* !isNaN(value) ? value : 500
OrDefault(value) == IF value # NaN THEN value[1] ELSE 500

\* the detail of the size-change event
SizeDetail(target, width, height) ==
    IF target[1] # "size" \/ target[2] = "custom"
    THEN <<OrDefault(width), OrDefault(height)>>
    ELSE <<MEDIA_SIZES[target[2]].height, MEDIA_SIZES[target[2]].width>>

\* Options.handleSizeChange is about to be called as operation 1, with
\* args = <<target, widthInput.valueAsNumber, heightInput.valueAsNumber>>
SizeChangeInit ==
    /\ file = NoFile
    /\ abortCtrl = 0
    /\ selectedSize = <<1350, 1080>>
    /\ selectedFilters = "none"
    /\ saving = -1
    /\ timers = 0
    /\ aborted = [i \in OpIds |-> FALSE]
    /\ nops = 1
    /\ canvas = BlankCanvas
    /\ \E t \in SizeTargets, w \in InputValues, h \in InputValues :
         ops = [i \in OpIds |->
                  IF i = 1
                  THEN [NoOp EXCEPT !.kind = "sizeChange", !.pc = "sc_call",
                                    !.args = <<t, w, h>>]
                  ELSE NoOp]

\* Options.handleSizeChange: the size-change event with its detail, which
\* Root.handleSizeChange stores (#updateCanvas returns: no file is selected)
ScCall(i) ==
    /\ ops[i].kind = "sizeChange" /\ ops[i].pc = "sc_call"
    /\ LET detail == SizeDetail(ops[i].args[1], ops[i].args[2], ops[i].args[3])
       IN /\ ops' = [ops EXCEPT ![i].pc = "done", ![i].result = "emitted",
                                ![i].ret = detail]
          /\ selectedSize' = detail
    /\ UNCHANGED <<file, abortCtrl, selectedFilters, saving, timers, aborted,
                   nops, canvas>>

SizeChangeNext == \E i \in OpIds : ScCall(i)

SizeChangeSpec == SizeChangeInit /\ [][SizeChangeNext]_vars

\* ================================================================ claims

\* an operation that still has work or callbacks ahead of it
InFlight(o) == o.pc \notin {"none", "done", "stopped"}

\* C1: every Dispatch (a step of #updateCanvas or #renderCanvas that creates
\* a controller) has aborted the controller Root held before it.
C1_HeldAbortedOnDispatch ==
    [][(nops' > nops /\ abortCtrl # 0) => aborted'[abortCtrl]]_vars

\* a second operation was dispatched and the controller held before it is aborted
C1_Witness ==
    /\ nops >= 2
    /\ \E i \in 1..nops : aborted[i] /\ abortCtrl # i
    /\ \E i \in 1..nops : ops[i].kind \in ExportKinds

\* C2: at most one operation started by Dispatch is in flight with a
\* controller that is not aborted.
C2_AtMostOneActive ==
    Cardinality({i \in 1..nops : InFlight(ops[i]) /\ ~aborted[i]}) <= 1

\* C3: the last write to the preview canvas was not made by an operation
\* after a later preview operation had started.
C3_NoStaleWrite ==
    canvas.by # 0 =>
        \A j \in (canvas.by + 1)..canvas.at : ops[j].kind \notin PreviewKinds

\* C4: while an export started through renderFile is in flight, Root holds
\* that export's controller.
C4_HeldIsExportToken ==
    \A i \in 1..nops :
        (ops[i].kind \in ExportKinds /\ ops[i].viaRenderFile /\ InFlight(ops[i]))
            => abortCtrl = i

\* C5: a sample is drawn and handed to the encoder only when the controller
\* is not aborted at its check; a sample received with the controller
\* aborted rejects the operation; once rejected, nothing more is drawn,
\* encoded or reported and no buffer is returned.
C5_AbortCheckRejects ==
    [][\A i \in OpIds :
         /\ (ops'[i].k > ops[i].k /\ aborted[i])
                => (ops'[i].result = "rejected" /\ ops'[i].pc = "done")
         /\ (ops'[i].drawn > ops[i].drawn) => ~aborted[i]
         /\ (ops'[i].result = "rejected") => ops'[i].buffer = -1
         /\ (ops[i].result = "rejected")
                => /\ ops'[i].result = "rejected"
                   /\ ops'[i].drawn = ops[i].drawn
                   /\ ops'[i].encoded = ops[i].encoded
                   /\ ops'[i].progress = ops[i].progress
                   /\ ops'[i].buffer = -1]_vars

\* a transcode rejected at the check of its second or a later sample
C5_Witness ==
    \E i \in 1..nops :
        /\ ops[i].result = "rejected" /\ ops[i].k >= 2
        /\ ops[i].drawn = ops[i].k - 1 /\ Len(ops[i].progress) = ops[i].k - 1

\* C6: a transcode of a source with samples whose controller was aborted
\* before any sample was received ends rejected, without bytes, with its
\* output not left started, its CanvasSource not left open and every
\* received sample closed.
C6_CancelBeforeFirstFrame ==
    \A i \in 1..nops :
        (/\ ops[i].kind = "exportVideo" /\ ops[i].pc = "done"
         /\ ops[i].hasTrack /\ NumSamples(ops[i].src) >= 1
         /\ ops[i].abortPc \notin {"", "done"} /\ ops[i].abortK = 0)
        => /\ ops[i].result = "rejected" /\ ops[i].buffer = -1
           /\ ops[i].outState # "started"
           /\ ~ops[i].srcOpen
           /\ ops[i].closed = ops[i].k

\* C7 as stated: a transcode of a source with a video track whose
\* controller was aborted before it returned ends rejected, without bytes.
C7_AbortAnywhereRejects ==
    \A i \in 1..nops :
        (/\ ops[i].kind = "exportVideo" /\ ops[i].pc = "done" /\ ops[i].hasTrack
         /\ ops[i].abortPc \notin {"", "done"})
        => (ops[i].result = "rejected" /\ ops[i].buffer = -1)

\* C7 as amended: a transcode of a source with a video track whose
\* controller was aborted while a sample was still to be received ends
\* rejected, without bytes; aborted later (no sample left: a source without
\* samples, or after the last sample was received, up to the end of
\* finalize) it returns its buffer.
C7_AbortBeforeLastCheckRejects ==
    \A i \in 1..nops :
        (/\ ops[i].kind = "exportVideo" /\ ops[i].pc = "done" /\ ops[i].hasTrack
         /\ ops[i].abortPc \notin {"", "done"})
        => IF ops[i].abortK < NumSamples(ops[i].src)
           THEN ops[i].result = "rejected" /\ ops[i].buffer = -1
           ELSE ops[i].result = "buffer" /\ ops[i].buffer > 0

\* a transcode aborted while finalize was pending, after its last sample
C7_Witness ==
    \E i \in 1..nops :
        /\ ops[i].pc = "done" /\ ops[i].abortPc = "rv_finalize"
        /\ NumSamples(ops[i].src) >= 1 /\ ops[i].result = "buffer"

\* progress values are fractions <<num, den>>
InUnit(p) == p[2] > 0 /\ 0 <= p[1] /\ p[1] <= p[2]
FracLeq(p, q) == p[1] * q[2] <= q[1] * p[2]

\* C8: a transcode of an N-sample track that was never aborted has called
\* the progress callback N+1 times, with values in [0, 1] that never
\* decrease, the last one exactly 1, and has returned a non-empty buffer.
C8_ProgressOfUncancelled ==
    \A i \in 1..nops :
        (/\ ops[i].kind = "exportVideo" /\ ops[i].pc = "done" /\ ops[i].hasTrack
         /\ ~aborted[i])
        => LET pr == ops[i].progress
           IN /\ Len(pr) = NumSamples(ops[i].src) + 1
              /\ \A j \in 1..Len(pr) : InUnit(pr[j])
              /\ \A j \in 1..(Len(pr) - 1) : FracLeq(pr[j], pr[j + 1])
              /\ pr[Len(pr)] = <<1, 1>>
              /\ ops[i].result = "buffer" /\ ops[i].buffer > 0

\* an uncancelled transcode of at least two samples has returned
C8_Witness ==
    \E i \in 1..nops :
        /\ ops[i].kind = "exportVideo" /\ ops[i].pc = "done" /\ ~aborted[i]
        /\ ops[i].hasTrack /\ NumSamples(ops[i].src) >= 2
        /\ ops[i].src.tail > 0

\* C9: at most one frame is with the encoder unaccepted, the loop is
\* suspended while it is, and no sample is received or drawn before the
\* frame of the one before was accepted.
C9_Backpressure ==
    \A i \in 1..nops :
        ops[i].kind = "exportVideo" =>
            /\ ops[i].pending <= 1
            /\ ops[i].pending = 1 => ops[i].pc = "rv_add"
            /\ ops[i].drawn <= (Len(ops[i].encoded) - ops[i].pending) + 1
            /\ ops[i].k <= (Len(ops[i].encoded) - ops[i].pending) + 1

\* the second frame is with the encoder, the loop suspended
C9_Witness ==
    \E i \in 1..nops :
        ops[i].pending = 1 /\ ops[i].k = 2 /\ ops[i].pc = "rv_add"

\* the samples of a file as the sink yields them: <<timestamp, duration>>
SourceSamples(f) ==
    [j \in 1..NumSamples(f) |-> <<Timestamp(f, j), SampleDuration(f, j)>>]

\* C10: the frames handed to the encoder are always a prefix of the
\* source's samples, each with its own timestamp and duration, in strictly
\* increasing timestamp order; an uncancelled transcode that returned has
\* handed over all of them.
C10_EncodedInSourceOrder ==
    \A i \in 1..nops :
        ops[i].kind = "exportVideo" =>
            LET e == ops[i].encoded
            IN /\ Len(e) <= NumSamples(ops[i].src)
               /\ \A j \in 1..Len(e) : e[j] = SourceSamples(ops[i].src)[j]
               /\ \A j \in 1..(Len(e) - 1) : e[j][1] < e[j + 1][1]
               /\ (ops[i].pc = "done" /\ ops[i].hasTrack /\ ~aborted[i])
                      => e = SourceSamples(ops[i].src)

\* an uncancelled transcode has handed three samples of different
\* durations to the encoder
C10_Witness ==
    \E i \in 1..nops :
        /\ ops[i].pc = "done" /\ ~aborted[i] /\ Len(ops[i].encoded) >= 3
        /\ ops[i].encoded[1][2] # ops[i].encoded[2][2]

\* C11: every sample the transcode loop received is closed exactly once:
\* never more closes than samples, and all of them closed whenever the loop
\* asks for the next sample or has been left.
C11_EverySampleClosed ==
    \A i \in 1..nops :
        ops[i].kind = "exportVideo" =>
            /\ ops[i].closed <= ops[i].k
            /\ ops[i].pc \in {"rv_next", "rv_finalize", "done"}
                   => ops[i].closed = ops[i].k

\* C12: a transcode of a container without a video track has returned
\* nothing: it did not reject, no sample was received or drawn, no frame
\* was handed to the encoder, the output was never started and the progress
\* callback was never called, whether or not its controller was aborted.
C12_NoTrackReturnsNothing ==
    \A i \in 1..nops :
        (ops[i].kind = "exportVideo" /\ ops[i].pc = "done" /\ ~ops[i].hasTrack)
        => /\ ops[i].result = "nothing" /\ ops[i].buffer = -1
           /\ ops[i].k = 0 /\ ops[i].drawn = 0
           /\ ops[i].encoded = <<>> /\ ops[i].pending = 0
           /\ ops[i].progress = <<>>
           /\ ops[i].outState = "new"

\* a transcode has returned for a container without a video track
C12_Witness ==
    \E i \in 1..nops :
        /\ ops[i].kind = "exportVideo" /\ ~ops[i].viaRenderFile
        /\ ops[i].pc = "done" /\ ~ops[i].hasTrack /\ ops[i].duration > 0

\* C13: an export through renderFile whose transcode returned nothing (no
\* video track, or no buffer after finalize) has saved no file.
C13_NothingSavesNothing ==
    \A i \in 1..nops :
        (/\ ops[i].kind = "exportVideo" /\ ops[i].viaRenderFile
         /\ ops[i].pc = "done" /\ ops[i].result = "nothing")
        => ops[i].saved = ""

\* C14: an export through renderFile whose transcode rejected (cancelled or
\* failed) has saved no file and its rejection was handled: it did not
\* leave renderFile, #renderCanvas and handleSave as an unhandled rejection.
C14_RejectionHandled ==
    \A i \in 1..nops :
        (/\ ops[i].kind = "exportVideo" /\ ops[i].viaRenderFile
         /\ ops[i].result = "rejected")
        => (ops[i].saved = "" /\ ~ops[i].unhandled)

\* the six media types of previewFile and renderFile
Supported(f) == f.type \in ImageTypes \cup VideoTypes

\* C15: an operation dispatched for a file of an unsupported type is over
\* when Dispatch returns and has done nothing: it never wrote the preview
\* canvas, drew, encoded or saved nothing, created no object URL, requested
\* no frame callback, called no progress callback and raised no error.
C15_UnsupportedIsNoOp ==
    \A i \in 1..nops :
        ~Supported(ops[i].src)
        => /\ ops[i].pc = "done" /\ ops[i].result = "none"
           /\ canvas.by # i
           /\ ops[i].frames = 0 /\ ops[i].drawn = 0 /\ ops[i].encoded = <<>>
           /\ ops[i].saved = "" /\ ops[i].bytes = 0
           /\ ~ops[i].urlLive /\ ops[i].revoked = 0 /\ ops[i].cb = 0
           /\ ops[i].progress = <<>>
           /\ ~ops[i].unhandled

\* a text file was previewed and then exported
C15_Witness ==
    /\ \E i \in 1..nops : ops[i].kind = "previewNone" /\ ops[i].src = TxtFile
    /\ \E j \in 1..nops : ops[j].kind = "exportNone" /\ ops[j].src = TxtFile

\* C16: the controller of an operation dispatched for a file of an
\* unsupported type is aborted from the moment Dispatch returns it.
C16_UnsupportedTokenAborted ==
    \A i \in 1..nops :
        ops[i].kind \in {"previewNone", "exportNone"} => aborted[i]

\* the calls of video.requestVideoFrameCallback a video preview has made:
\* one by initCanvas and one at the end of every updateCanvas that got its
\* bitmap; and the calls it had made when its controller was aborted (up to
\* the abort every bitmap was rendered: frames = bitmaps)
Requested(o) == (IF o.pc = "meta" THEN 0 ELSE 1) + o.bitmaps
RequestedAtAbort(o) == (IF o.abortPc = "meta" THEN 0 ELSE 1) + o.abortK

\* C17 as stated: once the controller of a video preview is aborted, at
\* most one more frame is rendered and no frame callback is requested any
\* more, wherever the loop stood (waiting for a frame or obtaining it).
C17_NoCallbackAfterAbort ==
    \A i \in 1..nops :
        (/\ ops[i].kind = "previewVideo" /\ aborted[i]
         /\ ops[i].abortPc \in {"waiting", "bitmap"})
        => /\ ops[i].frames <= ops[i].abortK + 1
           /\ Requested(ops[i]) = RequestedAtAbort(ops[i])

\* C17 as amended: once the controller of a video preview is aborted, no
\* more frame is rendered; a loop that was waiting for a frame requests no
\* frame callback any more; a loop that was obtaining the current frame (or
\* whose metadata was not loaded yet) requests at most one more, and a
\* stopped loop has no callback pending.
C17_AtMostOneCallbackAfterAbort ==
    \A i \in 1..nops :
        ops[i].kind = "previewVideo" =>
            /\ ~aborted[i] => ops[i].frames = ops[i].bitmaps
            /\ aborted[i] =>
                 /\ ops[i].frames = ops[i].abortK
                 /\ Requested(ops[i]) <= RequestedAtAbort(ops[i]) + 1
                 /\ ops[i].abortPc = "waiting"
                        => Requested(ops[i]) = RequestedAtAbort(ops[i])
            /\ ops[i].pc = "stopped" => (aborted[i] /\ ops[i].cb = 0)

\* a loop aborted while it obtained its second frame has requested one
\* more callback and stopped in it
C17_Witness ==
    \E i \in 1..nops :
        /\ ops[i].kind = "previewVideo" /\ aborted[i]
        /\ ops[i].abortPc = "bitmap" /\ ops[i].abortK = 1
        /\ ops[i].pc = "stopped"
        /\ Requested(ops[i]) = RequestedAtAbort(ops[i]) + 1

\* C18: a preview of a still image never requests a frame callback and
\* renders at most once; once its image has loaded it is over, and it has
\* rendered exactly once unless its controller was aborted before the load
\* (then not at all); it raises no error.
C18_StillRendersOnce ==
    \A i \in 1..nops :
        ops[i].kind = "previewImage" =>
            /\ ops[i].cb = 0 /\ ops[i].bitmaps = 0 /\ ~ops[i].unhandled
            /\ ops[i].frames <= 1
            /\ ops[i].pc \in {"loading", "done"}
            /\ ops[i].pc = "loading" => ops[i].frames = 0
            /\ ops[i].pc = "done"
                   => ops[i].frames = (IF ops[i].abortPc = "loading" THEN 0 ELSE 1)

\* a still preview has rendered its image and is over, its controller
\* never aborted
C18_Witness ==
    \E i \in 1..nops :
        /\ ops[i].kind = "previewImage" /\ ops[i].pc = "done"
        /\ ops[i].frames = 1 /\ ~aborted[i] /\ canvas.by = i

\* C19: the object URL of a preview and, for a video, its playing video
\* element are held until the controller is aborted and released by the
\* abort, once, wherever the preview stood.
C19_ReleasedOnceOnAbort ==
    \A i \in 1..nops :
        ops[i].kind \in {"previewImage", "previewVideo"} =>
            /\ ops[i].urlLive = ~aborted[i]
            /\ ops[i].revoked = (IF aborted[i] THEN 1 ELSE 0)
            /\ ops[i].playing = (ops[i].kind = "previewVideo" /\ ~aborted[i])

\* C20: a video preview holds at most one bitmap that was created by
\* createImageBitmap and not closed (bitmaps counts them: the loop closes
\* none).
C20_BitmapsBounded ==
    \A i \in 1..nops :
        ops[i].kind = "previewVideo" => ops[i].bitmaps <= 1

\* C21: a call of renderImage that finds its controller aborted leaves
\* the target surface as it was (filter, content and last writer) and
\* returns nothing.
C21_AbortedRenderImageIsNoOp ==
    [][\A i \in OpIds :
         (/\ ops[i].kind = "renderImage" /\ ops[i].pc = "ri_call"
          /\ ops'[i].pc # "ri_call" /\ aborted[i])
         => /\ canvas' = canvas
            /\ ops'[i].pc = "done" /\ ops'[i].ret = <<>>
            /\ ops'[i].drawn = 0]_vars

\* a call with an aborted controller has returned, the target surface
\* holding an image drawn earlier with another filter
C21_Witness ==
    /\ ops[1].kind = "renderImage" /\ ops[1].pc = "done"
    /\ ops[1].abortPc = "ri_call" /\ ops[1].filters = "f2"
    /\ canvas.content = "image" /\ canvas.filter = "f1"

\* C22: a call of renderImage that found its controller not aborted has
\* returned the encoded contents of an OffscreenCanvas (the export), and
\* nothing for the on-screen canvas (the preview).
C22_PreviewReturnsNothing ==
    \A i \in 1..nops :
        (/\ ops[i].kind = "renderImage" /\ ops[i].pc = "done"
         /\ ops[i].abortPc # "ri_call")
        => ops[i].ret = (IF ops[i].args[1] THEN <<"objectURL", "png">> ELSE <<>>)

\* the names of a FilterSet, and the FilterSet with its entries put in the
\* order of the catalog
NamesOf(f) == {f[j][1] : j \in 1..Len(f)}
InCatalog(n) == \E j \in 1..Len(FilterNames) : FilterNames[j] = n
IndexOf(f, n) == (CHOOSE j \in 1..Len(f) : f[j][1] = n)
CatalogOrdered(f) ==
    LET present == SelectSeq(FilterNames, LAMBDA n : n \in NamesOf(f))
    IN [j \in 1..Len(present) |-> f[IndexOf(f, present[j])]]

\* the term of one entry, name(value+unit) with the unit of the catalog,
\* and the terms of a list of entries separated by one space
CatalogUnit(n) ==
    CASE n = "blur" -> "px" [] n = "hue-rotate" -> "deg" [] OTHER -> "%"
TermOf(e) == e[1] \o "(" \o ToString(e[2]) \o CatalogUnit(e[1]) \o ")"
RECURSIVE TermsOf(_)
TermsOf(f) ==
    IF Len(f) = 0 THEN ""
    ELSE IF Len(f) = 1 THEN TermOf(f[1])
    ELSE TermOf(f[1]) \o " " \o TermsOf(Tail(f))

\* C23: after applyFilters with a FilterSet of catalog names the terms of
\* ctx.filter stand in the order of the catalog, whatever the insertion
\* order of the FilterSet was.
C23_CatalogOrder ==
    \A i \in 1..nops :
        (/\ ops[i].kind = "applyFilters" /\ ops[i].k >= 1
         /\ Len(ops[i].args[1]) >= 1
         /\ \A n \in NamesOf(ops[i].args[1]) : InCatalog(n))
        => canvas.filter = TermsOf(CatalogOrdered(ops[i].args[1]))

\* C24: after applyFilters with the empty FilterSet ctx.filter is "none";
\* with a non-empty FilterSet of catalog names it is one term
\* name(value+unit) per entry, the entries in their own order, the unit
\* from the catalog; a second call with the same FilterSet leaves the same
\* string.
C24_CompileTerms ==
    \A i \in 1..nops :
        (/\ ops[i].kind = "applyFilters" /\ ops[i].k >= 1
         /\ \A n \in NamesOf(ops[i].args[1]) : InCatalog(n))
        => /\ ops[i].result = "returned"
           /\ canvas.filter = (IF Len(ops[i].args[1]) = 0 THEN "none"
                                ELSE TermsOf(ops[i].args[1]))

\* applyFilters was called twice with two filters of different units on a
\* surface that had another filter
C24_Witness ==
    /\ ops[1].kind = "applyFilters" /\ ops[1].k = 2
    /\ ops[1].args[2] = "invert(75%)"
    /\ canvas.filter = "hue-rotate(60deg) blur(20px)"

\* C25: applyFilters with a FilterSet that holds a name outside the
\* catalog fails with an error and leaves ctx.filter as it was.
C25_UnknownNameFails ==
    \A i \in 1..nops :
        (/\ ops[i].kind = "applyFilters" /\ ops[i].k >= 1
         /\ \E n \in NamesOf(ops[i].args[1]) : ~InCatalog(n))
        => (ops[i].result # "returned" /\ canvas.filter = ops[i].args[2])

\* C26: a call of calcDimensions with a width or height that is not
\* greater than zero fails with an error and returns no Geometry.
C26_ZeroDimensionFails ==
    \A i \in 1..nops :
        (/\ ops[i].kind = "calcDimensions" /\ ops[i].pc = "done"
         /\ \E j \in 1..4 : ops[i].args[j] <= 0)
        => (ops[i].result # "returned" /\ ops[i].ret = <<>>)

\* the calls of calcDimensions that returned and had only positive arguments
PositiveCalls ==
    { i \in 1..nops : /\ ops[i].kind = "calcDimensions" /\ ops[i].pc = "done"
                       /\ \A j \in 1..4 : ops[i].args[j] > 0 }
FracEq(p, q) == p[1] * q[2] = q[1] * p[2]
FracAbs(p) == IF p[1] < 0 THEN <<-p[1], p[2]>> ELSE p
FracSub(p, q) == <<p[1] * q[2] - q[1] * p[2], p[2] * q[2]>>
FracHalf(p) == <<p[1], 2 * p[2]>>
\* the scale max(tw/sw, th/sh), exactly
ExactScale(a) ==
    IF a[3] * a[2] >= a[4] * a[1] THEN Frac(a[3], a[1]) ELSE Frac(a[4], a[2])
ExactExtent(a, side) == Frac(side * ExactScale(a)[1], ExactScale(a)[2])
\* x differs from the value e > 0 by at most 3 * 2^-MantBits of e: the
\* error that two roundings leave
Near(x, e) ==
    FracLeq(<<FracAbs(FracSub(x, e))[1] * 2^MantBits, FracSub(x, e)[2]>>,
            <<3 * e[1], e[2]>>)
\* x is the value e with at most one rounding
Rounded(x, e) ==
    FracLeq(<<FracAbs(FracSub(x, e))[1] * 2^MantBits, FracSub(x, e)[2]>>,
            FracAbs(e))

\* C27 (as stated): for positive dimensions calcDimensions returns the
\* source rectangle (0, 0, sw, sh) and a destination with destW * sh =
\* destH * sw, destW >= tw, destH >= th, one of the two with equality, and
\* the offset ((tw - destW) / 2, (th - destH) / 2), which is never positive.
C27_ExactCover ==
    \A i \in PositiveCalls :
        LET a == ops[i].args
            r == ops[i].ret
        IN /\ <<r[1], r[2], r[3], r[4]>> = <<Num(0), Num(0), Num(a[1]), Num(a[2])>>
           /\ FracEq(<<r[7][1] * a[2], r[7][2]>>, <<r[8][1] * a[1], r[8][2]>>)
           /\ FracLeq(Num(a[3]), r[7]) /\ FracLeq(Num(a[4]), r[8])
           /\ (r[7] = Num(a[3]) \/ r[8] = Num(a[4]))
           /\ FracEq(r[5], FracHalf(FracSub(Num(a[3]), r[7])))
           /\ FracEq(r[6], FracHalf(FracSub(Num(a[4]), r[8])))
           /\ r[5][1] <= 0 /\ r[6][1] <= 0

\* C27 (amended): for positive dimensions calcDimensions returns the
\* source rectangle (0, 0, sw, sh) exactly; the destination extent is the
\* source extent times max(tw/sw, th/sh) up to the rounding of the division
\* and the multiplication, so it covers the target up to that rounding; and
\* each offset is the rounded half of target minus destination extent.
C27_CoverUpToRounding ==
    \A i \in PositiveCalls :
        LET a == ops[i].args
            r == ops[i].ret
        IN /\ <<r[1], r[2], r[3], r[4]>> = <<Num(0), Num(0), Num(a[1]), Num(a[2])>>
           /\ \A j \in 5..8 : IsFinite(r[j])
           /\ Near(r[7], ExactExtent(a, a[1]))
           /\ Near(r[8], ExactExtent(a, a[2]))
           /\ FracLeq(<<a[3] * (2^MantBits - 3), 2^MantBits>>, r[7])
           /\ FracLeq(<<a[4] * (2^MantBits - 3), 2^MantBits>>, r[8])
           /\ Rounded(r[5], FracHalf(FracSub(Num(a[3]), r[7])))
           /\ Rounded(r[6], FracHalf(FracSub(Num(a[4]), r[8])))

\* a call with positive dimensions whose result shows the rounding: the
\* destination is narrower than the target and the x offset is positive
C27_Witness ==
    \E i \in PositiveCalls :
        /\ ~FracLeq(Num(ops[i].args[3]), ops[i].ret[7])
        /\ ops[i].ret[5][1] > 0

\* the calls with a 1920x1080 source and the canvas of the size <<1080, 1080>>
ExampleCalls ==
    { i \in PositiveCalls : ops[i].args = <<1920, 1080, 1080, 1080>> }

\* C28 (as stated): for the size (1080, 1080) and a 1920x1080 source the
\* destination is the source scaled by 1.0 and its x offset is 0.
C28_ZeroHorizontalShift ==
    \A i \in ExampleCalls :
        /\ ops[i].ret[7] = Num(1920) /\ ops[i].ret[8] = Num(1080)
        /\ ops[i].ret[5] = Num(0)

\* C28 (amended): for the size (1080, 1080) and a 1920x1080 source the
\* destination is the source scaled by 1.0, its y offset is 0 and its x
\* offset is (1080 - 1920) / 2 = -420.
C28_ExampleShift ==
    \A i \in ExampleCalls :
        /\ ops[i].ret[7] = Num(1920) /\ ops[i].ret[8] = Num(1080)
        /\ ops[i].ret[5] = Num(-420)
        /\ ops[i].ret[6] = Num(0)

C28_Witness ==
    \E i \in ExampleCalls : ops[i].ret[6] = Num(0) /\ ops[i].ret[5][1] < 0

\* C29: the surface of a still export with the size <<h, w>> has width w
\* and height h, as the preview surface for that size and as the
\* <width>x<height> suffix of the filename.
C29_ExportSurfaceAsPreview ==
    \A i \in 1..nops :
        (ops[i].kind = "exportImage" /\ ops[i].pc \in {"e_blob", "done"})
        => /\ ops[i].surface = <<ops[i].size[2], ops[i].size[1]>>
           /\ ops[i].surface = PreviewSurface(ops[i].size)
           /\ Suffix(ops[i].size) = "-" \o ToString(ops[i].surface[1])
                                        \o "x" \o ToString(ops[i].surface[2])

\* C30: the filename that is saved ends with the size suffix and the
\* target extension, whatever the name of the source is.
C30_FilenameEndsWithSuffix ==
    \A i \in 1..nops :
        ops[i].saved # ""
        => /\ Len(ops[i].filename) > 0
           /\ ops[i].filename[Len(ops[i].filename)]
                = Suffix(ops[i].size) \o "." \o ops[i].saved

\* the number of calls of the progress callback with the value 1
Ones(progress) ==
    Cardinality({ j \in 1..Len(progress) : progress[j][1] = progress[j][2] })

\* C31: in a transcode that is never aborted the encoder input is closed
\* once, when every sample has been handed to the encoder and accepted and
\* before the container is finalized; the container is finalized once,
\* after the close and before the progress callback has received 1; the
\* callback receives 1 once, when finalize has completed; and the buffer
\* is returned with the last step, after which nothing happens.
C31_EndOfStreamOrder ==
    [][\A i \in 1..nops :
         (ops[i].kind = "exportVideo" /\ ~aborted[i] /\ ~aborted'[i])
         => LET o == ops[i]
                n == ops'[i]
            IN /\ (o.srcOpen /\ ~n.srcOpen)
                  => /\ o.pending = 0
                     /\ Len(o.encoded) = NumSamples(o.src)
                     /\ o.outState = "started" /\ n.outState = "started"
                     /\ Ones(n.progress) = 0 /\ n.result = "none"
               /\ (o.hasTrack /\ ~o.srcOpen) => ~n.srcOpen
               /\ (o.outState # "finalized" /\ n.outState = "finalized")
                  => (~o.srcOpen /\ Ones(o.progress) = 0 /\ o.result = "none")
               /\ (Ones(o.progress) = 0 /\ Ones(n.progress) > 0)
                  => /\ n.outState = "finalized"
                     /\ n.progress = Append(o.progress, <<1, 1>>)
               /\ (o.result = "none" /\ n.result = "buffer")
                  => /\ n.pc = "done" /\ n.outState = "finalized"
                     /\ Ones(n.progress) = 1
               /\ o.pc = "done" => n = o]_vars

\* a transcode of two samples that was never aborted has returned its buffer
C31_Witness ==
    \E i \in 1..nops :
        /\ ops[i].kind = "exportVideo" /\ ~aborted[i]
        /\ NumSamples(ops[i].src) = 2
        /\ ops[i].pc = "done" /\ ops[i].result = "buffer"
        /\ ~ops[i].srcOpen /\ ops[i].outState = "finalized"
        /\ Ones(ops[i].progress) = 1

\* C32: the detail of a custom size is <<height, width>> as for a preset:
\* its first component is the value of the height input and its second the
\* value of the width input, each 500 when the input holds no number; and
\* Root stores that detail.
C32_CustomSizeHeightFirst ==
    \A i \in 1..nops :
        (/\ ops[i].kind = "sizeChange" /\ ops[i].pc = "done"
         /\ ops[i].args[1] \notin { <<"size", n>> : n \in DOMAIN MEDIA_SIZES })
        => /\ ops[i].ret[1] = (IF ops[i].args[3] = NaN THEN 500
                                ELSE ops[i].args[3][1])
           /\ ops[i].ret[2] = (IF ops[i].args[2] = NaN THEN 500
                                ELSE ops[i].args[2][1])
           /\ selectedSize = ops[i].ret

\* C33: a video preview has at most one frame callback pending, and the
\* pending callbacks of the session stay bounded: a preview with a pending
\* callback whose controller is not aborted is the operation whose
\* controller Root holds, so that the next Dispatch stops it.
C33_PendingCallbacksBounded ==
    \A i \in 1..nops :
        ops[i].kind = "previewVideo"
        => /\ ops[i].cb <= 1
           /\ (ops[i].cb > 0 /\ ~aborted[i]) => abortCtrl = i

\* C34: a transcode of a source with finitely many samples that is never
\* aborted, whose demuxer, encoder and container always answer, eventually
\* is over: no frame is left with the encoder, the loop is suspended
\* nowhere, and it has returned a buffer or nothing.
C34_TranscodeTerminates ==
    <>(\A i \in 1..nops :
         ops[i].kind = "exportVideo"
         => /\ ops[i].pc = "done" /\ ops[i].pending = 0
            /\ ops[i].result \in {"buffer", "nothing"}
            /\ ops[i].result = "buffer"
                 => /\ ops[i].k = NumSamples(ops[i].src)
                    /\ ops[i].outState = "finalized")

\* a transcode of MaxSamples samples has returned its buffer
C34_Witness ==
    \E i \in 1..nops :
        /\ ops[i].kind = "exportVideo" /\ ~aborted[i]
        /\ NumSamples(ops[i].src) = MaxSamples
        /\ ops[i].k = MaxSamples
        /\ ops[i].pc = "done" /\ ops[i].result = "buffer"

====
